---- MODULE Spec2Model ----
(***************************************************************************)
(* Retra, the Reference Tracer: the Ray class (src/core/ray.cpp).          *)
(*                                                                         *)
(* Doubles are modelled exactly where the code's arithmetic is rational:   *)
(*   - a Vector is an integer triple in units of 1/UnitLen, so the unit    *)
(*     directions are the Pythagorean triples of length UnitLen;           *)
(*   - a refractive index is an integer in units of 1/Vacuum, Vacuum       *)
(*     standing for the index 1.0;                                         *)
(*   - a hit parameter t is 0 (miss), 1..MaxT, or INF (miss).              *)
(* The throughput colour is modelled by the class its largest component    *)
(* falls in (see ColorClasses), which is all trace() and russianRoulette() *)
(* look at.  Returned radiance is not modelled.                            *)
(***************************************************************************)
EXTENDS Integers, Sequences, FiniteSets, TLC

\* ------------------------------------------------------------------ bounds
MaxT         == 2   \* largest finite hit parameter a part may return
MaxDepthSeed == 3   \* largest maxDepth a ray is seeded with
MaxInitStack == 1   \* deepest insideThings stack a trace() call starts with
MaxIndex     == 4   \* largest refractive index (in units of 1/Vacuum) fed to schlick

\* ------------------------------------------------------- fixed-point units
UnitLen == 5        \* the length 1.0 of a unit Vector
Vacuum  == 2        \* the refractive index 1.0

NULL == "NULL"
INF  == MaxT + 1
TValues == 0..INF

\* ------------------------------------------------------------------- scene
\* The scene's iteration order: each Thing / Light with its parts.
ThingParts == << <<"T1", "T1a">>, <<"T1", "T1b">>, <<"T2", "T2a">> >>
LightParts == << <<"L1", "L1a">> >>

Range(seq) == { seq[i] : i \in 1..Len(seq) }
Things   == { sp[1] : sp \in Range(ThingParts) }
Lights   == { sp[1] : sp \in Range(LightParts) }
Surfaces == Things \cup Lights
Parts    == { sp[2] : sp \in Range(ThingParts) \cup Range(LightParts) }
PartsOf(s) == { sp[2] : sp \in { q \in Range(ThingParts) \cup Range(LightParts) : q[1] = s } }

\* Thing::getRefractiveIndex, in units of 1/Vacuum: T1 is glass (1.5), T2 is 1.0
RefractiveIndex(th) == IF th = "T1" THEN Vacuum + 1 ELSE Vacuum

VARIABLES
  background,     \* the Surfaces whose isBackground() is true
  tvals,          \* what each part's intersect() returned in the last query
  lightHit, lightPartHit, thingHit, thingPartHit,
  nearestT,       \* the parameter origin was advanced by: origin = (*this)[nearestT]
  depth, color, direction, insideThings,
  pc,             \* "trace", a Material tag, "query", or "done" once the path has ended
  frames,         \* trace() invocations made on the path, each nested in the one before
  surfaceNormal,  \* the local surfaceNormal of the bounce in progress
  lastStep,       \* the branch the last step took
  maxDepth,       \* the depth the ray was seeded with
  stack0,         \* insideThings when trace() was called
  pushes, pops,   \* push / pop calls made by refraction transmissions
  lowWater,       \* least height of insideThings since trace() was called
  popFault,       \* top() or pop() was called on an empty stack
  schlickArgs, schlickResult

queryVars == <<tvals, lightHit, lightPartHit, thingHit, thingPartHit, nearestT>>
rayVars   == <<depth, color, direction, insideThings>>
ctlVars   == <<pc, frames, surfaceNormal, lastStep, maxDepth>>
stackVars == <<stack0, pushes, pops, lowWater, popFault>>
fnVars    == <<schlickArgs, schlickResult>>
vars == <<background, queryVars, rayVars, ctlVars, stackVars, fnVars>>

\* ------------------------------------------- Ray::traceToNextIntersection
Hit(lh, lp, th, tp, nt) ==
  [lightHit |-> lh, lightPartHit |-> lp, thingHit |-> th, thingPartHit |-> tp, nearestT |-> nt]

\* lines 188-193
NoHit == Hit(NULL, NULL, NULL, NULL, INF)

\* (t = (*part)->intersect(*this)) && t < nearestT
Closer_strictLost(t, nearest) == t # 0 /\ t <= nearest
Closer(t, nearest) == t # 0 /\ t < nearest

\* lines 199-204: the body of the foreground Thing loop
VisitThingFg(h, sp, tv) ==
  IF Closer(tv[sp[2]], h.nearestT)
  THEN [h EXCEPT !.nearestT = tv[sp[2]], !.thingHit = sp[1], !.thingPartHit = sp[2]]
  ELSE h

\* lines 228-235: the body of the background Thing loop
VisitThingBg(h, sp, tv) ==
  IF Closer(tv[sp[2]], h.nearestT)
  THEN Hit(NULL, NULL, sp[1], sp[2], tv[sp[2]])
  ELSE h

\* lines 209-216 and 240-247: the body of both Light loops
VisitLight_keepsThing(h, sp, tv) ==
  IF Closer(tv[sp[2]], h.nearestT)
  THEN [h EXCEPT !.nearestT = tv[sp[2]], !.lightHit = sp[1], !.lightPartHit = sp[2]]
  ELSE h
VisitLight(h, sp, tv) ==
  IF Closer(tv[sp[2]], h.nearestT)
  THEN Hit(sp[1], sp[2], NULL, NULL, tv[sp[2]])
  ELSE h

\* the surfaces of a pass, in iteration order: isBackground() == wantBg
PassOf(seq, bg, wantBg) == SelectSeq(seq, LAMBDA sp : (sp[1] \in bg) = wantBg)

RECURSIVE ScanThingsFg(_, _, _)
ScanThingsFg(h, seq, tv) ==
  IF seq = <<>> THEN h ELSE ScanThingsFg(VisitThingFg(h, Head(seq), tv), Tail(seq), tv)

RECURSIVE ScanThingsBg(_, _, _)
ScanThingsBg(h, seq, tv) ==
  IF seq = <<>> THEN h ELSE ScanThingsBg(VisitThingBg(h, Head(seq), tv), Tail(seq), tv)

RECURSIVE ScanLights(_, _, _)
ScanLights(h, seq, tv) ==
  IF seq = <<>> THEN h ELSE ScanLights(VisitLight(h, Head(seq), tv), Tail(seq), tv)

\* line 218: if ( thingHit || lightHit ) return
ForegroundHit_never(h) == FALSE
ForegroundHit(h) == h.thingHit # NULL \/ h.lightHit # NULL

\* lines 184-250
TraceToNextIntersection(tv, bg) ==
  LET fgT == ScanThingsFg(NoHit, PassOf(ThingParts, bg, FALSE), tv)
      fgL == ScanLights(fgT, PassOf(LightParts, bg, FALSE), tv)
      bgT == ScanThingsBg(fgL, PassOf(ThingParts, bg, TRUE), tv)
      bgL == ScanLights(bgT, PassOf(LightParts, bg, TRUE), tv)
  IN  IF ForegroundHit(fgL) THEN fgL ELSE bgL

\* On a path every part misses (0 or INF) or is hit at the same distance, so that
\* the order of the loops decides; the query on its own (SpecQuery) takes all TValues.
PathTValues == { 0, 1, INF }

\* every outcome a query on a path can have, by scene
HitTable == { <<bg, TraceToNextIntersection(tv, bg)>> :
                bg \in SUBSET Surfaces, tv \in [Parts -> PathTValues] }
HitOutcomes(bg) == { q[2] : q \in { e \in HitTable : e[1] = bg } }

\* ----------------------------------------------------------------- Vectors
Dot(a, b)    == a[1] * b[1] + a[2] * b[2] + a[3] * b[3]
VAdd(a, b)   == <<a[1] + b[1], a[2] + b[2], a[3] + b[3]>>
VSub(a, b)   == <<a[1] - b[1], a[2] - b[2], a[3] - b[3]>>
\* a * b for unit-scaled a and b, in units of 1/UnitLen (exact for an axis b)
DotFix(a, b) == Dot(a, b) \div UnitLen
\* surfaceNormal * k for a scalar k in units of 1/UnitLen
VScale(n, k) == <<(n[1] * k) \div UnitLen, (n[2] * k) \div UnitLen, (n[3] * k) \div UnitLen>>

\* Vector::UnitX, Vector::UnitZ (triplet.cpp:70-72)
UnitX == <<UnitLen, 0, 0>>
UnitZ == <<0, 0, UnitLen>>
\* what Part::getNormal may return
Normals == { UnitX, UnitZ }

\* the unit directions the rays take: (+-3, 0, +-4) / 5 and (0, 0, +-5) / 5
UnitDirs == { d \in {-3, 0, 3} \X {0} \X {-UnitLen, -4, 4, UnitLen} :
                Dot(d, d) = UnitLen * UnitLen }

\* Vector::random( normal ): a unit vector whose dot product with normal is
\* non-negative (triplet.cpp:36-61; the rejection loop ends with probability 1)
RandomDirs(normal) == { d \in UnitDirs : Dot(d, normal) >= 0 }

\* direction -= surfaceNormal * (direction * surfaceNormal) * 2   (lines 117, 131)
ReflectDir(d, n) == VSub(d, VScale(n, DotFix(d, n) * 2))

\* direction += surfaceNormal * (direction * surfaceNormal) * 2   (line 168)
TotalReflectDir(d, n) == VAdd(d, VScale(n, DotFix(d, n) * 2))

Abs(x) == IF x < 0 THEN -x ELSE x

\* lines 161-164: sinTheta2Squared as the fraction <<numerator, denominator>>,
\* with eta = n1 / n2 and cosTheta1 = abs( direction * surfaceNormal )
SinTheta2Squared(n1, n2, d, n) ==
  LET cosTheta1 == Abs(DotFix(d, n))
  IN  << n1 * n1 * (UnitLen * UnitLen - cosTheta1 * cosTheta1), n2 * n2 * UnitLen * UnitLen >>

\* line 165: 1 < sinTheta2Squared
TotalInternalReflection(n1, n2, d, n) ==
  LET s == SinTheta2Squared(n1, n2, d, n) IN s[2] < s[1]

\* line 174: the transmitted direction needs sqrt( 1.0 - sinTheta2Squared ), which is
\* irrational in general; the model keeps what the formula guarantees: the result
\* stays on the side of the surface the incoming direction points to.  At normal
\* incidence the formula gives the incoming direction back.
RefractDirs(d, n) ==
  IF Abs(DotFix(d, n)) = UnitLen /\ d \in UnitDirs
  THEN { d }
  ELSE { r \in UnitDirs : IF Dot(d, n) < 0 THEN Dot(r, n) <= 0 ELSE Dot(r, n) >= 0 }

\* ------------------------------------------------------------ Ray::schlick
Pow5(x) == x * x * x * x * x

\* lines 252-257, as the fraction <<numerator, denominator>>; n1, n2 in units of
\* 1/Vacuum and cosTheta in units of 1/UnitLen:
\*   R0 = (n1-n2)^2 / (n1+n2)^2,  R0 + (1 - R0) * (1 - cosTheta)^5
schlick_cosPow(n1, n2, cosTheta) ==
  LET r0n == (n1 - n2) * (n1 - n2)
      r0d == (n1 + n2) * (n1 + n2)
  IN  << r0n * Pow5(UnitLen) + (r0d - r0n) * Pow5(cosTheta), r0d * Pow5(UnitLen) >>
schlick(n1, n2, cosTheta) ==
  LET r0n == (n1 - n2) * (n1 - n2)
      r0d == (n1 + n2) * (n1 + n2)
  IN  << r0n * Pow5(UnitLen) + (r0d - r0n) * Pow5(UnitLen - cosTheta), r0d * Pow5(UnitLen) >>

\* ------------------------------------------------------------------ colour
\* The class of max( color.x, color.y, color.z ):
\*   "black"  color == RGB::Black          "dim"  0 < max < rrLimit
\*   "bright" rrLimit <= max               "neg"  max < 0
\*   "nan"    every component is NaN
ColorClasses == { "black", "dim", "bright", "neg", "nan" }

\* paint( c ) with an RGB c of non-negative components (a surface colour, an
\* emission, the sky): the product may lose every component
PaintRGB(col) ==
  CASE col = "nan"   -> { "nan" }
    [] col = "black" -> { "black" }
    [] col = "neg"   -> { "black", "neg" }
    [] OTHER         -> { "black", "dim", "bright" }

\* paint( RGB::White * k ) with a scalar k of the given sign
PaintScalar(col, k) ==
  CASE col = "nan"   -> { "nan" }
    [] col = "black" -> { "black" }
    [] k = 0         -> { "black" }
    [] col = "neg"   -> IF k > 0 THEN { "neg" } ELSE { "dim", "bright" }
    [] OTHER         -> IF k > 0 THEN { "dim", "bright" } ELSE { "neg" }

\* std::rand() by what russianRoulette can tell of it: 0, or positive with
\* rand * rrLimit / RAND_MAX at most ("low") or above ("high") a positive maxColor
RandDraws == { "zero", "low", "high" }

\* lines 69-81: <<the return value, the colour afterwards>>
RussianRoulette(col, r) ==
  CASE col = "bright" -> [kill |-> FALSE, color |-> col]
    [] col = "nan"    -> [kill |-> FALSE, color |-> "nan"]
    [] col = "neg"    -> [kill |-> TRUE,  color |-> col]
    [] col = "black"  -> IF r = "zero" THEN [kill |-> FALSE, color |-> "nan"]
                                       ELSE [kill |-> TRUE,  color |-> col]
    [] OTHER          -> IF r = "high" THEN [kill |-> TRUE,  color |-> col]
                                       ELSE [kill |-> FALSE, color |-> "bright"]

\* ------------------------------------------------------ the medium stack
Top(s)     == s[Len(s)]
Pop(s)     == SubSeq(s, 1, Len(s) - 1)
Push(s, x) == Append(s, x)

\* lines 97, 142: into = insideThings.empty() || insideThings.top() != thingHit
Into_sameTop(s, th) == s = <<>> \/ Top(s) = th
Into(s, th) == s = <<>> \/ Top(s) # th

\* lines 98-102, 143-147
IndexN1(s) == IF s = <<>> THEN Vacuum ELSE RefractiveIndex(Top(s))

\* lines 103-115, 148-160: n2, the stack the probe leaves behind, and whether it
\* called top() or pop() on an empty stack
ProbeN2_noPushBack(s, th, into) ==
  IF into
  THEN [n2 |-> RefractiveIndex(th), stack |-> s, fault |-> FALSE]
  ELSE IF s = <<>>
       THEN [n2 |-> Vacuum, stack |-> s, fault |-> TRUE]
       ELSE [n2 |-> IF Pop(s) = <<>> THEN Vacuum ELSE RefractiveIndex(Top(Pop(s))),
             stack |-> Pop(s), fault |-> FALSE]
ProbeN2(s, th, into) ==
  IF into
  THEN [n2 |-> RefractiveIndex(th), stack |-> s, fault |-> FALSE]
  ELSE IF s = <<>>
       THEN [n2 |-> Vacuum, stack |-> s, fault |-> TRUE]
       ELSE LET tempTop == Top(s)
                popped  == Pop(s)
                n2      == IF popped = <<>> THEN Vacuum ELSE RefractiveIndex(Top(popped))
            IN  [n2 |-> n2, stack |-> Push(popped, tempTop), fault |-> FALSE]

\* lines 175-178: the stack after a transmission, and whether pop() met an empty stack
Transmit_keepsOnLeave(s, th, into) ==
  IF into THEN [stack |-> Push(s, th), fault |-> FALSE]
  ELSE [stack |-> s, fault |-> s = <<>>]
Transmit(s, th, into) ==
  IF into THEN [stack |-> Push(s, th), fault |-> FALSE]
  ELSE IF s = <<>> THEN [stack |-> s, fault |-> TRUE]
  ELSE [stack |-> Pop(s), fault |-> FALSE]

\* line 51: --depth
Decrement_twice(d) == d - 2
Decrement(d) == d - 1

\* lines 87, 120, 128, 140: depth < 1
DepthExhausted_negative(d) == d < 0
DepthExhausted(d) == d < 1

\* ------------------------------------------------------------ the ray
Min(a, b) == IF a < b THEN a ELSE b
Max(a, b) == IF a < b THEN b ELSE a

Tags == { "DIFFUSE", "METALLIC", "REFLECT", "REFRACT" }

\* the stacks a trace() call can start with: no Thing is pushed on top of itself
RECURSIVE StacksUpTo(_)
StacksUpTo(n) ==
  IF n = 0 THEN { <<>> }
  ELSE LET shorter == StacksUpTo(n - 1)
       IN  shorter \cup { Append(s, th) : s \in { q \in shorter : Len(q) = n - 1 }, th \in Things }
InitStacks == { s \in StacksUpTo(MaxInitStack) : \A i \in 1..(Len(s) - 1) : s[i] # s[i + 1] }

\* the scenes the path is traced in
PathScenes == { {"T2"} }

SetHit(h) ==
  /\ lightHit' = h.lightHit
  /\ lightPartHit' = h.lightPartHit
  /\ thingHit' = h.thingHit
  /\ thingPartHit' = h.thingPartHit
  /\ nearestT' = h.nearestT

hitVars == <<lightHit, lightPartHit, thingHit, thingPartHit, nearestT>>

\* The ray as the camera hands it to trace(): depth seeded with maxDepth, colour
\* White, the first traceToNextIntersection() done, insideThings holding the media
\* the ray starts in (none, or Things entered earlier on).
Init ==
  /\ background \in PathScenes
  /\ tvals = [p \in Parts |-> 0]
  /\ \E h \in HitOutcomes(background) :
       /\ lightHit = h.lightHit
       /\ lightPartHit = h.lightPartHit
       /\ thingHit = h.thingHit
       /\ thingPartHit = h.thingPartHit
       /\ nearestT = h.nearestT
  /\ maxDepth \in 0..MaxDepthSeed
  /\ depth = maxDepth
  /\ color = "bright"
  /\ direction \in UnitDirs
  /\ insideThings \in InitStacks
  /\ pc = "trace"
  /\ frames = 0
  /\ surfaceNormal = <<0, 0, 0>>
  /\ lastStep = "init"
  /\ stack0 = insideThings
  /\ pushes = 0
  /\ pops = 0
  /\ lowWater = Len(insideThings)
  /\ popFault = FALSE
  /\ schlickArgs = <<Vacuum, Vacuum, 0>>
  /\ schlickResult = <<0, 1>>

\* Ray::trace, lines 33-67, up to the call of the bounce
Trace ==
  /\ pc = "trace"
  /\ frames' = frames + 1
  /\ IF color = "black" \/ depth < 0
     THEN /\ pc' = "done"
          /\ lastStep' = "dead"
          /\ UNCHANGED <<color, depth>>
     ELSE IF lightHit # NULL
     THEN /\ color' \in PaintRGB(color)
          /\ pc' = "done"
          /\ lastStep' = "light"
          /\ UNCHANGED depth
     ELSE IF thingHit = NULL
     THEN /\ color' \in PaintRGB(color)
          /\ pc' = "done"
          /\ lastStep' = "sky"
          /\ UNCHANGED depth
     ELSE /\ color' \in PaintRGB(color)
          /\ depth' = Decrement(depth)
          /\ pc' \in Tags
          /\ lastStep' = "thing"
  /\ UNCHANGED <<background, queryVars, direction, insideThings, surfaceNormal,
                 maxDepth, stackVars, fnVars>>

\* Ray::bounceDiffuse, lines 83-93, up to the recursive call of trace()
BounceDiffuse ==
  /\ pc = "DIFFUSE"
  /\ \E n \in Normals, r \in RandDraws :
       LET rr == RussianRoulette(color, r)
       IN  /\ surfaceNormal' = n
           /\ IF DepthExhausted(depth)
              THEN /\ pc' = "done"
                   /\ lastStep' = "stop"
                   /\ UNCHANGED <<color, direction, hitVars>>
              ELSE IF rr.kill
              THEN /\ pc' = "done"
                   /\ lastStep' = "stop"
                   /\ color' = rr.color
                   /\ UNCHANGED <<direction, hitVars>>
              ELSE \E d \in RandomDirs(n) :
                     /\ direction' = d
                     /\ color' \in PaintScalar(rr.color, DotFix(d, n))
                     /\ UNCHANGED hitVars
                     /\ pc' = "query"
                     /\ lastStep' = "diffuse"
  /\ UNCHANGED <<background, tvals, depth, insideThings, frames, maxDepth, stackVars, fnVars>>

\* Ray::bounceMetallic, lines 95-124, up to the recursive call of trace()
BounceMetallic ==
  /\ pc = "METALLIC"
  /\ \E n \in Normals, r \in RandDraws :
       LET into     == Into(insideThings, thingHit)
           n1       == IndexN1(insideThings)
           probe    == ProbeN2(insideThings, thingHit, into)
           reflDir  == ReflectDir(direction, n)
           cosTheta == DotFix(reflDir, n)
           fresnel  == schlick(n1, probe.n2, cosTheta)
       IN  /\ surfaceNormal' = n
           /\ insideThings' = probe.stack
           /\ popFault' = (popFault \/ probe.fault)
           /\ direction' = reflDir
           /\ \E painted \in PaintScalar(color, fresnel[1]) :
                LET rr == RussianRoulette(painted, r)
                IN  IF DepthExhausted(depth)
                    THEN /\ pc' = "done"
                         /\ lastStep' = "stop"
                         /\ color' = painted
                         /\ UNCHANGED hitVars
                    ELSE IF rr.kill
                    THEN /\ pc' = "done"
                         /\ lastStep' = "stop"
                         /\ color' = rr.color
                         /\ UNCHANGED hitVars
                    ELSE /\ color' = rr.color
                         /\ UNCHANGED hitVars
                         /\ pc' = "query"
                         /\ lastStep' = "metallic"
  /\ UNCHANGED <<background, tvals, depth, frames, maxDepth,
                 stack0, pushes, pops, lowWater, fnVars>>

\* Ray::bounceReflect, lines 126-134, up to the recursive call of trace()
BounceReflect ==
  /\ pc = "REFLECT"
  /\ \E n \in Normals, r \in RandDraws :
       LET rr == RussianRoulette(color, r)
       IN  IF DepthExhausted(depth)
           THEN /\ pc' = "done"
                /\ lastStep' = "stop"
                /\ UNCHANGED <<color, direction, surfaceNormal, hitVars>>
           ELSE IF rr.kill
           THEN /\ pc' = "done"
                /\ lastStep' = "stop"
                /\ color' = rr.color
                /\ UNCHANGED <<direction, surfaceNormal, hitVars>>
           ELSE /\ color' = rr.color
                /\ surfaceNormal' = n
                /\ direction' = ReflectDir(direction, n)
                /\ UNCHANGED hitVars
                /\ pc' = "query"
                /\ lastStep' = "reflect"
  /\ UNCHANGED <<background, tvals, depth, insideThings, frames, maxDepth, stackVars, fnVars>>

\* Ray::bounceRefract, lines 136-182, up to the recursive call of trace()
BounceRefract ==
  /\ pc = "REFRACT"
  /\ \E n \in Normals, r \in RandDraws :
       LET rr    == RussianRoulette(color, r)
           into  == Into(insideThings, thingHit)
           n1    == IndexN1(insideThings)
           probe == ProbeN2(insideThings, thingHit, into)
           moved == Transmit(probe.stack, thingHit, into)
       IN  IF DepthExhausted(depth)
           THEN /\ pc' = "done"
                /\ lastStep' = "stop"
                /\ UNCHANGED <<color, direction, surfaceNormal, hitVars, insideThings, stackVars>>
           ELSE IF rr.kill
           THEN /\ pc' = "done"
                /\ lastStep' = "stop"
                /\ color' = rr.color
                /\ UNCHANGED <<direction, surfaceNormal, hitVars, insideThings, stackVars>>
           ELSE /\ color' = rr.color
                /\ surfaceNormal' = n
                /\ UNCHANGED <<hitVars, stack0>>
                /\ pc' = "query"
                /\ IF TotalInternalReflection(n1, probe.n2, direction, n)
                   THEN /\ direction' = TotalReflectDir(direction, n)
                        /\ insideThings' = probe.stack
                        /\ popFault' = (popFault \/ probe.fault)
                        /\ lastStep' = "tir"
                        /\ UNCHANGED <<pushes, pops, lowWater>>
                   ELSE /\ direction' \in RefractDirs(direction, n)
                        /\ insideThings' = moved.stack
                        /\ popFault' = (popFault \/ probe.fault \/ moved.fault)
                        /\ pushes' = (IF into THEN pushes + 1 ELSE pushes)
                        /\ pops' = (IF into THEN pops ELSE pops + 1)
                        /\ lowWater' = Min(lowWater, Len(moved.stack))
                        /\ lastStep' = "transmit"
  /\ UNCHANGED <<background, tvals, depth, frames, maxDepth, fnVars>>

\* Ray::traceToNextIntersection, lines 184-250, as the bounces call it
Query ==
  /\ pc = "query"
  /\ \E h \in HitOutcomes(background) : SetHit(h)
  /\ pc' = "trace"
  /\ surfaceNormal' = <<0, 0, 0>>
  /\ lastStep' = "query"
  /\ UNCHANGED <<background, tvals, rayVars, frames, maxDepth, stackVars, fnVars>>

Next ==
  \/ Trace
  \/ BounceDiffuse
  \/ BounceMetallic
  \/ BounceReflect
  \/ BounceRefract
  \/ Query

Spec == Init /\ [][Next]_vars

\* trace() is a plain sequential call: a step that can be taken is taken
FairSpec == Spec /\ WF_vars(Next)

\* ---------------------------------------- traceToNextIntersection alone
\* A ray in any scene, before a query; each call records what intersect() returned.
InitQuery ==
  /\ background \in SUBSET Surfaces
  /\ tvals = [p \in Parts |-> 0]
  /\ lightHit = NULL /\ lightPartHit = NULL /\ thingHit = NULL /\ thingPartHit = NULL
  /\ nearestT = INF
  /\ maxDepth = 0 /\ depth = 0 /\ color = "bright" /\ direction = UnitZ
  /\ insideThings = <<>>
  /\ pc = "query" /\ frames = 0 /\ surfaceNormal = <<0, 0, 0>> /\ lastStep = "init"
  /\ stack0 = <<>> /\ pushes = 0 /\ pops = 0 /\ lowWater = 0 /\ popFault = FALSE
  /\ schlickArgs = <<Vacuum, Vacuum, 0>> /\ schlickResult = <<0, 1>>

\* Ray::traceToNextIntersection, lines 184-250
TraceToNextIntersectionCall ==
  /\ pc = "query"
  /\ 0 <= depth
  /\ \E tv \in [Parts -> TValues] :
       /\ tvals' = tv
       /\ SetHit(TraceToNextIntersection(tv, background))
  /\ lastStep' = "query"
  /\ UNCHANGED <<background, rayVars, pc, frames, surfaceNormal, maxDepth, stackVars, fnVars>>

NextQuery == TraceToNextIntersectionCall

SpecQuery == InitQuery /\ [][NextQuery]_vars

\* ------------------------------------------------------- schlick alone
InitSchlick ==
  /\ schlickArgs \in (1..MaxIndex) \X (1..MaxIndex) \X (0..UnitLen)
  /\ schlickResult = <<0, 1>>
  /\ pc = "schlick"
  /\ background = {}
  /\ tvals = [p \in Parts |-> 0]
  /\ lightHit = NULL /\ lightPartHit = NULL /\ thingHit = NULL /\ thingPartHit = NULL
  /\ nearestT = INF
  /\ maxDepth = 0 /\ depth = 0 /\ color = "bright" /\ direction = UnitZ
  /\ insideThings = <<>>
  /\ frames = 0 /\ surfaceNormal = <<0, 0, 0>> /\ lastStep = "init"
  /\ stack0 = <<>> /\ pushes = 0 /\ pops = 0 /\ lowWater = 0 /\ popFault = FALSE

\* Ray::schlick, lines 252-257
SchlickCall ==
  /\ pc = "schlick"
  /\ schlickResult' = schlick(schlickArgs[1], schlickArgs[2], schlickArgs[3])
  /\ pc' = "schlicked"
  /\ UNCHANGED <<background, queryVars, rayVars, frames, surfaceNormal, lastStep,
                 maxDepth, stackVars, schlickArgs>>

NextSchlick == SchlickCall

SpecSchlick == InitSchlick /\ [][NextSchlick]_vars

\* ================================================================ claims
Owner(p) == CHOOSE s \in Surfaces : p \in PartsOf(s)
Finite(t) == t \in 1..MaxT
Foreground(p) == Owner(p) \notin background
ThingPartSet == { sp[2] : sp \in Range(ThingParts) }
LightPartSet == { sp[2] : sp \in Range(LightParts) }

\* C1: once a foreground part returns a finite t > 0, the reported hit is a
\* foreground surface, whatever the background parts return.
C1_ForegroundShadowsBackground ==
  (\E p \in Parts : Foreground(p) /\ Finite(tvals[p]))
    => /\ thingHit # NULL \/ lightHit # NULL
       /\ thingHit # NULL => thingHit \notin background
       /\ lightHit # NULL => lightHit \notin background

\* a foreground part at the largest t, a background part nearer, a foreground hit
C1_Witness ==
  /\ \E p, q \in Parts : /\ Foreground(p) /\ tvals[p] = MaxT
                         /\ ~Foreground(q) /\ Finite(tvals[q]) /\ tvals[q] < MaxT
  /\ \A p \in Parts : Foreground(p) => tvals[p] \in {0, MaxT, INF}
  /\ nearestT = MaxT

\* the parts of the pass that decides the query: the foreground parts when one of
\* them is hit, the background parts otherwise
DecidingPass ==
  IF \E p \in Parts : Foreground(p) /\ Finite(tvals[p])
  THEN { p \in Parts : Foreground(p) }
  ELSE { p \in Parts : ~Foreground(p) }
NearestIn(ps) == CHOOSE t \in TValues :
                   /\ \E p \in ps : tvals[p] = t /\ Finite(t)
                   /\ \A p \in ps : Finite(tvals[p]) => t <= tvals[p]
\* a Thing part and a Light part of the deciding pass are both nearest
TieInPass ==
  /\ \E p \in DecidingPass : Finite(tvals[p])
  /\ \E p \in DecidingPass \cap ThingPartSet : tvals[p] = NearestIn(DecidingPass)
  /\ \E q \in DecidingPass \cap LightPartSet : tvals[q] = NearestIn(DecidingPass)

C3_ExactlyOneHit ==
  LET anyHit == \E p \in Parts : Finite(tvals[p])
  IN  /\ ~(lightHit # NULL /\ thingHit # NULL)
      /\ anyHit => (lightHit # NULL) # (thingHit # NULL)
      /\ (lightHit = NULL /\ lightPartHit = NULL /\ thingHit = NULL /\ thingPartHit = NULL)
           <=> ~anyHit
      /\ (lightHit # NULL) <=> (lightPartHit # NULL)
      /\ (thingHit # NULL) <=> (thingPartHit # NULL)

\* a Light is reported although a Thing part was hit as well
C3_Witness ==
  /\ lightHit # NULL /\ thingHit = NULL
  /\ \E p \in ThingPartSet : Finite(tvals[p])

\* C4: trace() terminates, and the trace() invocations nested on the path never
\* exceed maxDepth (one invocation when maxDepth is 0).
C4_TraceTerminates ==
  /\ <>(pc = "done")
  /\ [](frames <= Max(1, maxDepth))

\* the recursion reaches the cap of a ray seeded with the largest maxDepth
C4_Witness == frames = maxDepth /\ maxDepth = MaxDepthSeed /\ pc = "done"

\* C5: in the total-internal-reflection branch of bounceRefract the outgoing
\* direction is the mirror reflection bounceReflect produces for the same
\* incoming direction and normal.
C5_TIRIsMirrorReflection ==
  [][lastStep' = "tir" => direction' = ReflectDir(direction, surfaceNormal')]_vars

\* C6 as claimed: a path with as many pushes as pops ends with the stack it began with.
C6_BalancedPathRestoresStack ==
  (pc = "done" /\ pushes = pops) => insideThings = stack0

\* C6 as amended: a path with as many pushes as pops on which insideThings never
\* dropped below its initial height ends with the stack it began with.
C6_BalancedAboveStartRestoresStack ==
  (pc = "done" /\ pushes = pops /\ lowWater = Len(stack0)) => insideThings = stack0

\* a path that entered and left a dielectric, starting inside another
C6_Witness ==
  /\ pc = "done" /\ pushes = pops /\ pushes >= 1
  /\ lowWater = Len(stack0) /\ stack0 # <<>>

\* C7 as claimed: schlick(n, n, c) = 0 for every n > 0 and every c in [0, 1].
C7_SchlickSameIndexIsZero ==
  (pc = "schlicked" /\ schlickArgs[1] = schlickArgs[2]) => schlickResult[1] = 0

\* C7 as amended: schlick(n, n, c) = (1 - c)^5, which is 0 only at c = 1.
C7_SchlickSameIndexIsPow ==
  (pc = "schlicked" /\ schlickArgs[1] = schlickArgs[2])
    => /\ schlickResult[1] * Pow5(UnitLen) = Pow5(UnitLen - schlickArgs[3]) * schlickResult[2]
       /\ (schlickResult[1] = 0) <=> (schlickArgs[3] = UnitLen)

C7_Witness ==
  /\ pc = "schlicked" /\ schlickArgs[1] = schlickArgs[2]
  /\ schlickArgs[3] = 0 /\ schlickResult[1] = schlickResult[2]

\* C8: insideThings is changed only by a refraction transmission of bounceRefract;
\* every other step, the probes for n2 included, leaves it as it was.
C8_StackChangesOnlyOnTransmission ==
  [][insideThings' # insideThings => (pc = "REFRACT" /\ lastStep' = "transmit")]_vars

\* bounceMetallic has probed below the top (leaving thingHit) and goes on
C8_Witness ==
  /\ pc = "query" /\ lastStep = "metallic"
  /\ Len(insideThings) >= 2 /\ Top(insideThings) = thingHit

\* what trace() does to depth, and every other step leaves it alone
DepthStep ==
  IF pc = "trace" /\ ~(color = "black" \/ depth < 0) /\ lightHit = NULL /\ thingHit # NULL
  THEN depth' = depth - 1
  ELSE depth' = depth

\* C9 as claimed: depth >= 0 in every state, decremented by exactly one by a trace()
\* call that hits a non-emitter and unchanged by every other.
C9_DepthNonNegative ==
  [][depth' >= 0 /\ DepthStep]_vars

\* C9 as amended: depth >= -1 in every state and depth >= 0 whenever trace() or
\* traceToNextIntersection() is entered; depth is -1 only for maxDepth = 0, after
\* the trace() call hit a non-emitter; depth moves as claimed.
C9_DepthAtLeastMinusOne ==
  [][/\ depth' >= -1
     /\ depth' = -1 => maxDepth = 0
     /\ pc' \in {"trace", "query"} => depth' >= 0
     /\ DepthStep]_vars

C9_Witness == maxDepth = 0 /\ depth = -1 /\ pc \in Tags

\* C10: trace() never calls pop() or top() on an empty insideThings, and every pop
\* of a refraction transmission removes the thingHit just struck.
C10_PopsOnlyTheThingHit ==
  [][/\ ~popFault'
     /\ pops' # pops => /\ insideThings # <<>>
                        /\ Top(insideThings) = thingHit
                        /\ insideThings' = Pop(insideThings)]_vars

\* a transmission has left the last enclosing Thing
C10_Witness == lastStep = "transmit" /\ pops >= 1 /\ insideThings = <<>> /\ pushes = 0

====
